---- MODULE Spec2Model ----
(***************************************************************************)
(* Model of nemo/collections/llm/inference/base.py:                        *)
(*   MCoreTokenizerWrappper, _setup_trainer_and_restore_model,             *)
(*   setup_model_and_tokenizer and generate.                               *)
(* Every statement of the three functions is one action; the calls into    *)
(* the strategy, the trainer, the model, the context loader and the engine *)
(* are recorded, in program order, in the sequence `log`.  A call into a   *)
(* collaborator either returns or raises.                                  *)
(***************************************************************************)
EXTENDS Integers, Sequences, FiniteSets, TLC

\* ------------------------------------------------------------------ values
\* Python's None and a present optional value.
None == <<>>
Some(v) == <<v>>

\* Bounds of the model.
MaxCP == 2
MaxPrompts == 3
MaxTextLen == 2

\* Checkpoint paths are sequences of path components.
CkptPaths == { <<"ckpt">>, <<"adapter_ckpt">> }
BasePaths == { <<"base">> }

\* The separator-delimited marker of adapter parameters (line 108).
AdapterMarker == <<".", "a", "d", "a", "p", "t", "e", "r", ".">>

\* Parameter names, as character sequences.
K_w == <<"m", ".", "w">>
K_b == <<"m", ".", "b">>
K_adapter_in == <<"m", ".", "a", "d", "a", "p", "t", "e", "r", ".", "i">>
K_adapter_out == <<"m", ".", "a", "d", "a", "p", "t", "e", "r", ".", "o">>
K_adapter_nodot == <<"m", ".", "a", "d", "a", "p", "t", "e", "r">>
K_noleading == <<"a", "d", "a", "p", "t", "e", "r", ".", "w">>
K_adapters == <<"m", ".", "a", "d", "a", "p", "t", "e", "r", "s", ".", "w">>

\* Sharded state keys a model may have before the transform is applied.
BaseKeySets == { {K_w, K_b, K_noleading}, {K_w, K_adapter_in, K_adapters} }
\* Keys a low-rank-adapter transform may add to the model.
LoraKeySets == { {K_adapter_in, K_adapter_out}, {K_adapter_out, K_adapter_nodot} }

\* ---------------------------------------------------------- pure helpers
\* Python's `sub in s` on strings.
Contains(sub, s) ==
    \E i \in 1..(Len(s) - Len(sub) + 1) : SubSeq(s, i, i + Len(sub) - 1) = sub

\* nemo.lightning.ckpt_utils: <path>/weights and <path>/context.
WEIGHTS_PATH == "weights"
CONTEXT_PATH == "context"
ADAPTER_META_FILENAME == "adapter_metadata.json"
ckpt_to_weights_subdir(p) == Append(p, WEIGHTS_PATH)
ckpt_to_context_subdir(p) == Append(p, CONTEXT_PATH)

\* Path.__truediv__
Join(p, name) == Append(p, name)

\* The path probed at line 74.
adapter_meta_path(p) == Join(ckpt_to_weights_subdir(p), ADAPTER_META_FILENAME)

\* Contents an adapter-metadata file may have: text that is not JSON, a JSON
\* object without the field, a JSON object with the field.
MalformedJson == [valid |-> FALSE, obj |-> [other |-> <<"x">>]]
JsonWithoutKey == [valid |-> TRUE, obj |-> [other |-> <<"x">>]]
JsonWithKey(b) == [valid |-> TRUE, obj |-> [model_ckpt_path |-> b]]
MetaContents == {MalformedJson, JsonWithoutKey} \cup { JsonWithKey(b) : b \in BasePaths }

\* Files that may exist: per checkpoint, the metadata file in the weights
\* subdirectory.
MetaFiles == { adapter_meta_path(p) : p \in CkptPaths }

\* RestoreConfig(path, load_model_state, load_optim_state), lines 77-87.
RestoreConfig(p, lm, lo) == [path |-> p, load_model_state |-> lm, load_optim_state |-> lo]

\* Variant: the filter tests for "adapter" without the delimiting dots.
AdapterFilter_nodots(keys) == { k \in keys : Contains(<<"a", "d", "a", "p", "t", "e", "r">>, k) }

\* The keys kept by the comprehension at line 108.
AdapterFilter(keys) == { k \in keys : Contains(AdapterMarker, k) }

\* One entry of the call log.
Ev(op) == [op |-> op, dir |-> <<>>, sub |-> "", keys |-> {}, strict |-> TRUE, obj |-> ""]
EvOn(op, obj) == [Ev(op) EXCEPT !.obj = obj]


\* ------------------------------------------------------------ generate
PromptAlphabet == {"a", "b"}
SeqsUpTo(S, n) == UNION { [1..k -> S] : k \in 0..n }
PromptLists == SeqsUpTo(PromptAlphabet, MaxPrompts) \ {<<>>}

\* Python truthiness of an Optional[CommonInferenceParams]: None is false, an
\* instance of the dataclass (no __bool__, no __len__) is true.
Truthy(opt) == opt # None

\* CommonInferenceParams(num_tokens_to_generate=512), line 148.
DefaultNumTokens == 512
DefaultInferenceParams == [id |-> "default", num_tokens_to_generate |-> DefaultNumTokens]

\* Parameter objects a caller may pass.
CallerInferenceParams ==
    { [id |-> "caller", num_tokens_to_generate |-> n] : n \in {DefaultNumTokens, 64} }

\* Variant: the default replaces the caller's parameters.
ResolveInferenceParams_default(ip) == DefaultInferenceParams

\* line 148: inference_params or CommonInferenceParams(num_tokens_to_generate=512)
ResolveInferenceParams(ip) == IF Truthy(ip) THEN ip[1] ELSE DefaultInferenceParams

\* Variant: the choice tests the truth value of encoder_prompts.
ControllerType_truthy(enc) ==
    IF enc # None /\ enc[1] # <<>> THEN "EncoderDecoderTextGenerationController"
                                   ELSE "SimpleTextGenerationController"

\* lines 138-143: the controller class chosen for the given encoder_prompts.
ControllerType(enc) ==
    IF enc # None THEN "EncoderDecoderTextGenerationController"
                  ELSE "SimpleTextGenerationController"

Controller(enc, m, t) == [type |-> ControllerType(enc), model |-> m, tokenizer |-> t]

\* lines 144-146: MCoreEngine(text_generation_controller=..., max_batch_size=..., random_seed=...)
MCoreEngine(c, mbs, seed) ==
    [text_generation_controller |-> c, max_batch_size |-> mbs, random_seed |-> seed]

\* Variant: duplicate prompts are dropped before the engine is called.
Dedup(p) ==
    LET first == { i \in 1..Len(p) : \A j \in 1..(i - 1) : p[j] # p[i] }
        nth(n) == CHOOSE i \in first : Cardinality({ j \in first : j < i }) = n - 1
    IN [n \in 1..Cardinality(first) |-> p[nth(n)]]
GenerateArgs_dedup(p, bos, enc, cip) ==
    [prompts |-> Dedup(p), add_BOS |-> bos, encoder_prompts |-> enc,
     common_inference_params |-> cip]

\* lines 150-155: the keyword arguments of mcore_engine.generate.
GenerateArgs(p, bos, enc, cip) ==
    [prompts |-> p, add_BOS |-> bos, encoder_prompts |-> enc, common_inference_params |-> cip]

Reverse(q) == [i \in 1..Len(q) |-> q[Len(q) + 1 - i]]

\* Stub engines: one answers the prompts in the order given, one in reverse.
EngineKinds == {"echo", "reverse"}
EngineGenerate(kind, args) ==
    LET ordered == IF kind = "echo" THEN args.prompts ELSE Reverse(args.prompts)
    IN [i \in 1..Len(ordered) |->
          [prompt |-> ordered[i],
           num_tokens |-> args.common_inference_params.num_tokens_to_generate]]

\* ------------------------------------------------- MCoreTokenizerWrappper
\* Stub tokenizers over a three-symbol alphabet; "<s>" is a special token.
TextAlphabet == {"a", "b", "<s>"}
Texts == SeqsUpTo(TextAlphabet, MaxTextLen)
\* Ids: 0 pad, 1 "<s>" (bos), 2 eod, 3 "a", 4 "b", 5 unknown.  The "lossy"
\* tokenizer has no entry for "b" and encodes it as unknown.
SpecialIds == {0, 1, 2}
TokenizerKinds == {"plain", "lossy"}
Tokenizers ==
    { [kind |-> k, eod |-> 2, vocab_size |-> 6, bos_id |-> 1, pad_id |-> 0,
       additional_special_tokens_ids |-> <<1>>] : k \in TokenizerKinds }

SymbolId(kind, c) ==
    CASE c = "a" -> 3
      [] c = "b" -> IF kind = "lossy" THEN 5 ELSE 4
      [] c = "<s>" -> 1

IdSymbol(i) ==
    CASE i = 3 -> "a"
      [] i = 4 -> "b"
      [] i = 1 -> "<s>"
      [] OTHER -> "?"

\* tokenizer.text_to_ids(text)
text_to_ids(tok, text) == [i \in 1..Len(text) |-> SymbolId(tok.kind, text[i])]

\* tokenizer.ids_to_text(ids, remove_special_tokens)
NotSpecial(i) == i \notin SpecialIds
ids_to_text(tok, ids, remove_special_tokens) ==
    LET kept == IF remove_special_tokens THEN SelectSeq(ids, NotSpecial) ELSE ids
    IN [i \in 1..Len(kept) |-> IdSymbol(kept[i])]

\* MCoreTokenizerWrappper.__init__, lines 46-49.
MCoreTokenizerWrappper(tok) == [tokenizer |-> tok, eod |-> tok.eod, vocab_size |-> tok.vocab_size]

\* MCoreTokenizerWrappper.tokenize, lines 54-55.
tokenize(self, prompt) == text_to_ids(self.tokenizer, prompt)

\* Variant: special tokens are removed by default.
RemoveSpecialDefault_true == TRUE

\* The default of remove_special_tokens, line 51.
RemoveSpecialDefault == FALSE

\* MCoreTokenizerWrappper.detokenize, lines 51-52; `arg` is the optional
\* remove_special_tokens argument.
detokenize(self, toks, arg) ==
    ids_to_text(self.tokenizer, toks, IF arg = None THEN RemoveSpecialDefault ELSE arg[1])

\* The properties, lines 57-67.
additional_special_tokens_ids(self) == self.tokenizer.additional_special_tokens_ids
bos(self) == self.tokenizer.bos_id
pad(self) == self.tokenizer.pad_id

\* --------------------------------------------------------------- state
VARIABLES
    entry, pc, error,
    \* arguments and environment of the restore
    path, params_dtype, threshold, strategy_type, context_parallel_size, fs,
    launcher, model_configured, base_keys,
    \* trainer / strategy fields written by the restore
    restore_config, setup_optimizers, ckpt_path, state_fn, strategy_trainer,
    \* locals of _setup_trainer_and_restore_model
    metadata, rc, lora, model_ref, sharded, adapter_sharded_state_dict, adapter_state,
    \* calls made so far, and the value returned by setup_model_and_tokenizer
    log, ret,
    \* arguments of generate and the stub engine it runs against
    prompts, encoder_prompts, add_BOS, max_batch_size, random_seed, inference_params,
    engine_kind,
    \* locals of generate, the calls received by the engine, the returned value
    text_generation_controller, mcore_engine, common_inference_params, engine_calls, results,
    \* the wrapped tokenizer, the MCoreTokenizerWrappper object, and the
    \* arguments and results of its methods
    tokenizer, wrapper, text_in, remove_arg, tokens, text_out, props

envVars == <<entry, path, params_dtype, threshold, strategy_type, context_parallel_size, fs,
             launcher, base_keys>>
fieldVars == <<restore_config, setup_optimizers, ckpt_path, state_fn, strategy_trainer>>
localVars == <<metadata, rc, lora, model_ref, sharded, adapter_sharded_state_dict, adapter_state>>
genArgs == <<prompts, encoder_prompts, add_BOS, max_batch_size, random_seed, inference_params,
             engine_kind>>
genVars == <<text_generation_controller, mcore_engine, common_inference_params, engine_calls,
             results>>
tokArgs == <<tokenizer, text_in, remove_arg>>
tokVars == <<wrapper, tokens, text_out, props>>
others == <<genArgs, genVars, tokArgs, tokVars>>
restoreVars == <<fieldVars, localVars, model_configured, log, ret>>
vars == <<envVars, fieldVars, localVars, pc, error, model_configured, log, ret,
          genArgs, genVars, tokArgs, tokVars>>

NoMeta == [valid |-> FALSE, obj |-> [other |-> <<>>]]
NoConfig == RestoreConfig(<<>>, FALSE, FALSE)

NoController == [type |-> "None", model |-> "None", tokenizer |-> "None"]
NoWrapper == [tokenizer |-> CHOOSE t \in Tokenizers : t.kind = "plain", eod |-> -1, vocab_size |-> -1]
NoProps == [additional_special_tokens_ids |-> <<>>, bos |-> -1, pad |-> -1, eod |-> -1,
            vocab_size |-> -1]

\* Values of the variables of an entry point that is not the one running.
RestoreArgsIdle ==
    /\ path = <<"ckpt">>
    /\ params_dtype = "bfloat16"
    /\ threshold = 1000
    /\ strategy_type = "MegatronStrategy"
    /\ context_parallel_size = 1
    /\ fs = [f \in MetaFiles |-> None]
    /\ launcher = None
    /\ model_configured = FALSE
    /\ base_keys = {}

RestoreStateInit ==
    /\ restore_config = None
    /\ setup_optimizers = TRUE
    /\ ckpt_path = Some(<<"previous">>)
    /\ state_fn = "None"
    /\ strategy_trainer = "None"
    /\ metadata = NoMeta
    /\ rc = NoConfig
    /\ lora = "None"
    /\ model_ref = "model"
    /\ sharded = {}
    /\ adapter_sharded_state_dict = {}
    /\ adapter_state = {}
    /\ log = <<>>
    /\ ret = None

GenArgsIdle ==
    /\ prompts = <<"a">>
    /\ encoder_prompts = None
    /\ add_BOS = FALSE
    /\ max_batch_size = 4
    /\ random_seed = None
    /\ inference_params = None
    /\ engine_kind = "echo"

GenStateInit ==
    /\ text_generation_controller = NoController
    /\ mcore_engine = None
    /\ common_inference_params = None
    /\ engine_calls = <<>>
    /\ results = None

TokArgsIdle ==
    /\ tokenizer = CHOOSE t \in Tokenizers : t.kind = "plain"
    /\ text_in = <<>>
    /\ remove_arg = None

TokStateInit ==
    /\ wrapper = NoWrapper
    /\ tokens = <<>>
    /\ text_out = <<>>
    /\ props = NoProps

\* A call of setup_model_and_tokenizer, or of _setup_trainer_and_restore_model
\* on its own.
InitRestore ==
    /\ entry \in {"setup_model_and_tokenizer", "_setup_trainer_and_restore_model"}
    /\ pc = IF entry = "setup_model_and_tokenizer" THEN "L121" ELSE "L72"
    /\ error = "None"
    /\ path \in CkptPaths
    /\ params_dtype \in {"bfloat16", "float32"}
    /\ threshold \in {1000, 1}
    /\ strategy_type \in {"MegatronStrategy", "DDPStrategy"}
    /\ context_parallel_size \in 1..MaxCP
    /\ fs \in [MetaFiles -> {None} \cup { Some(c) : c \in MetaContents }]
    /\ launcher \in {None, Some("launcher")}
    /\ model_configured \in BOOLEAN
    /\ base_keys \in BaseKeySets
    /\ RestoreStateInit
    /\ GenArgsIdle /\ GenStateInit /\ TokArgsIdle /\ TokStateInit

\* A call of generate.
InitGenerate ==
    /\ entry = "generate"
    /\ pc = "L138"
    /\ error = "None"
    /\ prompts \in PromptLists
    /\ encoder_prompts \in {None, Some(<<>>), Some(prompts)}
    /\ add_BOS \in BOOLEAN
    /\ max_batch_size \in {1, 4}
    /\ random_seed \in {None, Some(1234)}
    /\ inference_params \in {None} \cup { Some(ip) : ip \in CallerInferenceParams }
    /\ engine_kind \in EngineKinds
    /\ GenStateInit
    /\ RestoreArgsIdle /\ RestoreStateInit /\ TokArgsIdle /\ TokStateInit

\* Construction of a MCoreTokenizerWrappper followed by calls of its methods.
InitTokenizer ==
    /\ entry = "MCoreTokenizerWrappper"
    /\ pc = "L46"
    /\ error = "None"
    /\ tokenizer \in Tokenizers
    /\ text_in \in Texts
    /\ remove_arg \in {None, Some(FALSE), Some(TRUE)}
    /\ TokStateInit
    /\ RestoreArgsIdle /\ RestoreStateInit /\ GenArgsIdle /\ GenStateInit

Init == InitRestore \/ InitGenerate \/ InitTokenizer

\* ------------------------------------------------------------- actions
Raise(exc) == pc' = "raised" /\ error' = exc

\* Where _setup_trainer_and_restore_model returns to.
AfterRestore == IF entry = "setup_model_and_tokenizer" THEN "L124" ELSE "done"

\* line 121: model = io.load_context(path=ckpt_to_context_subdir(path), subpath="model")
LoadModelContext ==
    /\ pc = "L121"
    /\ log' = Append(log, [Ev("load_context") EXCEPT !.dir = ckpt_to_context_subdir(path),
                                                     !.sub = "model"])
    /\ \/ pc' = "L72" /\ error' = error
       \/ Raise("load_context")
    /\ UNCHANGED <<envVars, others, fieldVars, localVars, model_configured, ret>>

\* line 72: isinstance(trainer.strategy, MegatronStrategy)
IsMegatronStrategy(t) == t = "MegatronStrategy"

\* Variant: the limit off by one.
ContextParallelSupported_loose(n) == n <= 2

\* line 73: trainer.strategy.context_parallel_size <= 1
ContextParallelSupported(n) == n <= 1

\* line 72: assert isinstance(trainer.strategy, MegatronStrategy)
AssertStrategy ==
    /\ pc = "L72"
    /\ IF IsMegatronStrategy(strategy_type)
          THEN pc' = "L73" /\ error' = error
          ELSE Raise("AssertionError")
    /\ UNCHANGED <<envVars, others, fieldVars, localVars, model_configured, log, ret>>

\* line 73: assert trainer.strategy.context_parallel_size <= 1
AssertContextParallel ==
    /\ pc = "L73"
    /\ IF ContextParallelSupported(context_parallel_size)
          THEN pc' = "L74" /\ error' = error
          ELSE Raise("AssertionError")
    /\ UNCHANGED <<envVars, others, fieldVars, localVars, model_configured, log, ret>>

Exists(f) == f \in DOMAIN fs /\ fs[f] # None

\* line 74: if (adapter_meta_path := ...).exists()
ProbeAdapterMeta ==
    /\ pc = "L74"
    /\ log' = Append(log, [Ev("exists") EXCEPT !.dir = adapter_meta_path(path)])
    /\ pc' = IF Exists(adapter_meta_path(path)) THEN "L75" ELSE "L83"
    /\ UNCHANGED <<envVars, others, fieldVars, localVars, model_configured, error, ret>>

\* Variant: an unparsable metadata file is ignored and the given path used.
ReadAdapterMeta_fallback ==
    /\ pc = "L75"
    /\ log' = Append(log, [Ev("open") EXCEPT !.dir = adapter_meta_path(path)])
    /\ LET content == fs[adapter_meta_path(path)][1]
       IN IF content.valid
             THEN /\ metadata' = content
                  /\ pc' = "L77"
                  /\ error' = error
             ELSE /\ metadata' = metadata
                  /\ pc' = "L83"
                  /\ error' = error
    /\ UNCHANGED <<envVars, others, fieldVars, rc, lora, model_ref, sharded,
                   adapter_sharded_state_dict, adapter_state, model_configured, ret>>

\* lines 75-76: with open(adapter_meta_path) as f: metadata = json.load(f)
ReadAdapterMeta ==
    /\ pc = "L75"
    /\ log' = Append(log, [Ev("open") EXCEPT !.dir = adapter_meta_path(path)])
    /\ LET content == fs[adapter_meta_path(path)][1]
       IN IF content.valid
             THEN /\ metadata' = content
                  /\ pc' = "L77"
                  /\ error' = error
             ELSE /\ metadata' = metadata
                  /\ Raise("JSONDecodeError")
    /\ UNCHANGED <<envVars, others, fieldVars, rc, lora, model_ref, sharded, adapter_sharded_state_dict,
                   adapter_state, model_configured, ret>>

\* Variant: the metadata branch points the RestoreConfig at the given path.
BuildConfigFromMeta_direct ==
    /\ pc = "L77"
    /\ IF "model_ckpt_path" \in DOMAIN metadata.obj
          THEN /\ rc' = RestoreConfig(path, TRUE, FALSE)
               /\ pc' = "L89"
               /\ error' = error
          ELSE /\ rc' = rc
               /\ Raise("KeyError")
    /\ UNCHANGED <<envVars, others, fieldVars, metadata, lora, model_ref, sharded,
                   adapter_sharded_state_dict, adapter_state, model_configured, log, ret>>

\* lines 77-81: restore_config = RestoreConfig(path=metadata['model_ckpt_path'], ...)
BuildConfigFromMeta ==
    /\ pc = "L77"
    /\ IF "model_ckpt_path" \in DOMAIN metadata.obj
          THEN /\ rc' = RestoreConfig(metadata.obj["model_ckpt_path"], TRUE, FALSE)
               /\ pc' = "L89"
               /\ error' = error
          ELSE /\ rc' = rc
               /\ Raise("KeyError")
    /\ UNCHANGED <<envVars, others, fieldVars, metadata, lora, model_ref, sharded,
                   adapter_sharded_state_dict, adapter_state, model_configured, log, ret>>

\* lines 83-87: restore_config = RestoreConfig(path=path, ...)
BuildConfigDirect ==
    /\ pc = "L83"
    /\ rc' = RestoreConfig(path, TRUE, FALSE)
    /\ pc' = "L89"
    /\ UNCHANGED <<envVars, others, fieldVars, metadata, lora, model_ref, sharded,
                   adapter_sharded_state_dict, adapter_state, model_configured, error, log, ret>>

\* line 89: trainer.strategy.restore_config = restore_config
InstallRestoreConfig ==
    /\ pc = "L89"
    /\ restore_config' = Some(rc)
    /\ log' = Append(log, Ev("set_restore_config"))
    /\ pc' = "L90"
    /\ UNCHANGED <<envVars, others, setup_optimizers, ckpt_path, state_fn, strategy_trainer, localVars,
                   model_configured, error, ret>>

\* line 90: trainer.strategy._setup_optimizers = False
DisableOptimizerSetup ==
    /\ pc = "L90"
    /\ setup_optimizers' = FALSE
    /\ log' = Append(log, Ev("set_setup_optimizers"))
    /\ pc' = "L91"
    /\ UNCHANGED <<envVars, others, restore_config, ckpt_path, state_fn, strategy_trainer, localVars,
                   model_configured, error, ret>>

\* line 91: trainer.ckpt_path = None
ClearCkptPath ==
    /\ pc = "L91"
    /\ ckpt_path' = None
    /\ log' = Append(log, Ev("set_ckpt_path"))
    /\ pc' = "L92"
    /\ UNCHANGED <<envVars, others, restore_config, setup_optimizers, state_fn, strategy_trainer,
                   localVars, model_configured, error, ret>>

\* line 92: trainer.strategy.connect(model)
Connect ==
    /\ pc = "L92"
    /\ log' = Append(log, EvOn("connect", model_ref))
    /\ \/ pc' = "L93" /\ error' = error
       \/ Raise("connect")
    /\ UNCHANGED <<envVars, others, fieldVars, localVars, model_configured, ret>>

\* lines 93-94: if trainer.strategy.launcher is not None: launcher.launch(lambda: None, trainer=trainer)
HasLauncher(l) == l # None

Launch ==
    /\ pc = "L93"
    /\ IF HasLauncher(launcher)
          THEN /\ log' = Append(log, EvOn("launch", "noop"))
               /\ \/ pc' = "L95" /\ error' = error
                  \/ Raise("launch")
          ELSE /\ log' = log
               /\ pc' = "L95"
               /\ error' = error
    /\ UNCHANGED <<envVars, others, fieldVars, localVars, model_configured, ret>>

\* line 95: trainer.strategy.setup_environment()
SetupEnvironment ==
    /\ pc = "L95"
    /\ log' = Append(log, Ev("setup_environment"))
    /\ \/ pc' = "L97" /\ error' = error
       \/ Raise("setup_environment")
    /\ UNCHANGED <<envVars, others, fieldVars, localVars, model_configured, ret>>

\* model.state_dict() of a lazily built model: empty until configure_model ran.
StateDict(configured) == IF configured THEN "nonempty" ELSE "empty"

\* Variant: the model is configured unconditionally.
NeedsConfigure_always(sd) == TRUE

\* line 97: `not model.state_dict()`, the truth value of a dict
NeedsConfigure(sd) == sd = "empty"

\* lines 97-98: if not model.state_dict(): model.configure_model()
\* state_dict() returns or raises; configure_model() is called only when it
\* returned an empty dict, and returns or raises in turn.
ConfigureModel ==
    /\ pc = "L97"
    /\ \/ /\ log' = Append(log, EvOn("state_dict", StateDict(model_configured)))
          /\ Raise("state_dict")
          /\ model_configured' = model_configured
       \/ IF NeedsConfigure(StateDict(model_configured))
             THEN /\ log' = log \o <<EvOn("state_dict", StateDict(model_configured)),
                                      EvOn("configure_model", model_ref)>>
                  /\ \/ pc' = "L100" /\ error' = error /\ model_configured' = TRUE
                     \/ Raise("configure_model") /\ model_configured' = model_configured
             ELSE /\ log' = Append(log, EvOn("state_dict", StateDict(model_configured)))
                  /\ pc' = "L100"
                  /\ error' = error
                  /\ model_configured' = model_configured
    /\ UNCHANGED <<envVars, others, fieldVars, localVars, ret>>

\* line 100: trainer.state.fn = TrainerFn.TESTING
SetTesting ==
    /\ pc = "L100"
    /\ state_fn' = "TESTING"
    /\ log' = Append(log, Ev("set_state_fn"))
    /\ pc' = "L101"
    /\ UNCHANGED <<envVars, others, restore_config, setup_optimizers, ckpt_path, strategy_trainer,
                   localVars, model_configured, error, ret>>

\* line 101: trainer.strategy.setup_megatron_parallel(trainer=trainer)
SetupMegatronParallel ==
    /\ pc = "L101"
    /\ log' = Append(log, Ev("setup_megatron_parallel"))
    /\ \/ pc' = "L102" /\ error' = error
       \/ Raise("setup_megatron_parallel")
    /\ UNCHANGED <<envVars, others, fieldVars, localVars, model_configured, ret>>

\* line 102: trainer.strategy.trainer = trainer
BindTrainer ==
    /\ pc = "L102"
    /\ strategy_trainer' = "trainer"
    /\ log' = Append(log, Ev("set_strategy_trainer"))
    /\ pc' = "L103"
    /\ UNCHANGED <<envVars, others, restore_config, setup_optimizers, ckpt_path, state_fn, localVars,
                   model_configured, error, ret>>

\* line 103: trainer.strategy.selective_restore(), which loads from the
\* installed restore_config
SelectiveRestore ==
    /\ pc = "L103"
    /\ log' = Append(log, [Ev("selective_restore") EXCEPT
                             !.dir = IF restore_config = None THEN <<>> ELSE restore_config[1].path])
    /\ \/ pc' = "L105" /\ error' = error
       \/ Raise("selective_restore")
    /\ UNCHANGED <<envVars, others, fieldVars, localVars, model_configured, ret>>

\* line 105: lora = io.load_context(ckpt_to_context_subdir(path), "model.model_transform")
LoadTransformContext ==
    /\ pc = "L105"
    /\ log' = Append(log, [Ev("load_context") EXCEPT !.dir = ckpt_to_context_subdir(path),
                                                     !.sub = "model.model_transform"])
    /\ \/ \E kind \in {"LoRA", "TrainerContext"} :
             lora' = kind /\ pc' = "L106" /\ error' = error
       \/ lora' = lora /\ Raise("load_context")
    /\ UNCHANGED <<envVars, others, fieldVars, metadata, rc, model_ref, sharded,
                   adapter_sharded_state_dict, adapter_state, model_configured, ret>>

\* line 106: if isinstance(lora, LoRA)
IsLoRA(x) == x = "LoRA"

TestTransform ==
    /\ pc = "L106"
    /\ pc' = IF IsLoRA(lora) THEN "L107" ELSE AfterRestore
    /\ UNCHANGED <<envVars, others, fieldVars, localVars, model_configured, error, log, ret>>

\* line 107: model = lora(model).  The transform returns the model it was
\* given or a new object around it; either way the result carries the
\* adapter parameters.
ApplyLora ==
    /\ pc = "L107"
    /\ log' = Append(log, EvOn("lora", model_ref))
    /\ \/ \E m \in {"model", "lora_model"}, added \in LoraKeySets :
             /\ model_ref' = m
             /\ sharded' = base_keys \cup added
             /\ pc' = "L108"
             /\ error' = error
       \/ /\ UNCHANGED <<model_ref, sharded>>
          /\ Raise("lora")
    /\ UNCHANGED <<envVars, others, fieldVars, metadata, rc, lora, adapter_sharded_state_dict,
                   adapter_state, model_configured, ret>>

\* line 108: adapter_sharded_state_dict = {k: v for k, v in model.sharded_state_dict().items()
\*                                          if ".adapter." in k}
FilterAdapterKeys ==
    /\ pc = "L108"
    /\ log' = Append(log, EvOn("sharded_state_dict", model_ref))
    /\ \/ /\ adapter_sharded_state_dict' = AdapterFilter(sharded)
          /\ pc' = "L109"
          /\ error' = error
       \/ /\ UNCHANGED adapter_sharded_state_dict
          /\ Raise("sharded_state_dict")
    /\ UNCHANGED <<envVars, others, fieldVars, metadata, rc, lora, model_ref, sharded, adapter_state,
                   model_configured, ret>>

\* lines 109-111: adapter_state = checkpoint_io.load_checkpoint(ckpt_to_weights_subdir(path),
\*                                   sharded_state_dict=adapter_sharded_state_dict)
LoadAdapterCheckpoint ==
    /\ pc = "L109"
    /\ log' = Append(log, [Ev("load_checkpoint") EXCEPT !.dir = ckpt_to_weights_subdir(path),
                                                        !.keys = adapter_sharded_state_dict])
    /\ \/ /\ adapter_state' = adapter_sharded_state_dict
          /\ pc' = "L112"
          /\ error' = error
       \/ /\ UNCHANGED adapter_state
          /\ Raise("load_checkpoint")
    /\ UNCHANGED <<envVars, others, fieldVars, metadata, rc, lora, model_ref, sharded,
                   adapter_sharded_state_dict, model_configured, ret>>

\* line 112: trainer.strategy.load_model_state_dict(adapter_state, strict=False)
LoadAdapterState ==
    /\ pc = "L112"
    /\ log' = Append(log, [Ev("load_model_state_dict") EXCEPT !.keys = adapter_state,
                                                              !.strict = FALSE])
    /\ \/ pc' = AfterRestore /\ error' = error
       \/ Raise("load_model_state_dict")
    /\ UNCHANGED <<envVars, others, fieldVars, localVars, model_configured, ret>>

\* MCoreTokenizerWrappper.__init__ as used at line 125 (the wrapper of the
\* tokenizer of the model object `m`).
WrapTokenizerOf(m) == [tokenizer |-> m]

\* Variant: the wrapper is requested with the default dtype and threshold.
InferenceWrapperOf_defaults(m, dtype, thr) == [model |-> m, dtype |-> "bfloat16", threshold |-> 1000]

\* line 124: inference_wrapped_model = model.get_inference_wrapper(params_dtype, threshold)
\* `model` here is the object loaded at line 121: the rebinding of line 107
\* is local to _setup_trainer_and_restore_model.
InferenceWrapperOf(m, dtype, thr) == [model |-> m, dtype |-> dtype, threshold |-> thr]

GetInferenceWrapper ==
    /\ pc = "L124"
    /\ log' = Append(log, [EvOn("get_inference_wrapper", "model") EXCEPT !.sub = params_dtype])
    /\ \/ pc' = "L125" /\ error' = error
       \/ Raise("get_inference_wrapper")
    /\ UNCHANGED <<envVars, others, fieldVars, localVars, model_configured, ret>>

\* line 125: return inference_wrapped_model, MCoreTokenizerWrappper(model.tokenizer)
ReturnPair ==
    /\ pc = "L125"
    /\ log' = Append(log, EvOn("MCoreTokenizerWrappper", "model"))
    /\ \/ /\ ret' = Some([wrapped |-> InferenceWrapperOf("model", params_dtype, threshold),
                          tokenizer |-> WrapTokenizerOf("model")])
          /\ pc' = "done"
          /\ error' = error
       \/ /\ ret' = ret
          /\ Raise("MCoreTokenizerWrappper")
    /\ UNCHANGED <<envVars, others, fieldVars, localVars, model_configured>>


\* ------------------------------------------------------ generate actions
rest == <<envVars, restoreVars>>

\* lines 138-143: choose and build the text generation controller
SelectController ==
    /\ pc = "L138"
    /\ \/ /\ text_generation_controller' = Controller(encoder_prompts, "model", "tokenizer")
          /\ pc' = "L144"
          /\ error' = error
       \/ /\ UNCHANGED text_generation_controller
          /\ Raise(ControllerType(encoder_prompts))
    /\ UNCHANGED <<rest, genArgs, mcore_engine, common_inference_params, engine_calls, results,
                   tokArgs, tokVars>>

\* lines 144-146: mcore_engine = MCoreEngine(...)
BuildEngine ==
    /\ pc = "L144"
    /\ \/ /\ mcore_engine' =
                Some(MCoreEngine(text_generation_controller, max_batch_size, random_seed))
          /\ pc' = "L148"
          /\ error' = error
       \/ /\ UNCHANGED mcore_engine
          /\ Raise("MCoreEngine")
    /\ UNCHANGED <<rest, genArgs, text_generation_controller, common_inference_params,
                   engine_calls, results, tokArgs, tokVars>>

\* line 148: common_inference_params = inference_params or CommonInferenceParams(...)
ChooseInferenceParams ==
    /\ pc = "L148"
    /\ common_inference_params' = Some(ResolveInferenceParams(inference_params))
    /\ pc' = "L150"
    /\ UNCHANGED <<rest, genArgs, text_generation_controller, mcore_engine, engine_calls,
                   results, tokArgs, tokVars, error>>

\* lines 150-157: results = mcore_engine.generate(...); return results
EngineCall ==
    /\ pc = "L150"
    /\ LET args == GenerateArgs(prompts, add_BOS, encoder_prompts, common_inference_params[1])
       IN /\ engine_calls' = Append(engine_calls, args)
          /\ \/ /\ results' = Some(EngineGenerate(engine_kind, args))
                /\ pc' = "done"
                /\ error' = error
             \/ /\ results' = results
                /\ Raise("engine")
    /\ UNCHANGED <<rest, genArgs, text_generation_controller, mcore_engine,
                   common_inference_params, tokArgs, tokVars>>

\* ----------------------------------------------------- tokenizer actions
\* lines 46-49: MCoreTokenizerWrappper(tokenizer)
WrapperInit ==
    /\ pc = "L46"
    /\ wrapper' = MCoreTokenizerWrappper(tokenizer)
    /\ pc' = "L54"
    /\ UNCHANGED <<rest, genArgs, genVars, tokArgs, tokens, text_out, props, error>>

\* lines 54-55: wrapper.tokenize(text_in)
Tokenize ==
    /\ pc = "L54"
    /\ \/ tokens' = tokenize(wrapper, text_in) /\ pc' = "L51" /\ error' = error
       \/ tokens' = tokens /\ Raise("text_to_ids")
    /\ UNCHANGED <<rest, genArgs, genVars, tokArgs, wrapper, text_out, props>>

\* lines 51-52: wrapper.detokenize(tokens) or wrapper.detokenize(tokens, remove_arg)
Detokenize ==
    /\ pc = "L51"
    /\ \/ text_out' = detokenize(wrapper, tokens, remove_arg) /\ pc' = "L57" /\ error' = error
       \/ text_out' = text_out /\ Raise("ids_to_text")
    /\ UNCHANGED <<rest, genArgs, genVars, tokArgs, wrapper, tokens, props>>

\* lines 57-67 and the attributes cached at lines 48-49: read every property
ReadProperties ==
    /\ pc = "L57"
    /\ props' = [additional_special_tokens_ids |-> additional_special_tokens_ids(wrapper),
                 bos |-> bos(wrapper), pad |-> pad(wrapper),
                 eod |-> wrapper.eod, vocab_size |-> wrapper.vocab_size]
    /\ pc' = "done"
    /\ UNCHANGED <<rest, genArgs, genVars, tokArgs, wrapper, tokens, text_out, error>>

Next ==
    \/ LoadModelContext
    \/ AssertStrategy
    \/ AssertContextParallel
    \/ ProbeAdapterMeta
    \/ ReadAdapterMeta
    \/ BuildConfigFromMeta
    \/ BuildConfigDirect
    \/ InstallRestoreConfig
    \/ DisableOptimizerSetup
    \/ ClearCkptPath
    \/ Connect
    \/ Launch
    \/ SetupEnvironment
    \/ ConfigureModel
    \/ SetTesting
    \/ SetupMegatronParallel
    \/ BindTrainer
    \/ SelectiveRestore
    \/ LoadTransformContext
    \/ TestTransform
    \/ ApplyLora
    \/ FilterAdapterKeys
    \/ LoadAdapterCheckpoint
    \/ LoadAdapterState
    \/ GetInferenceWrapper
    \/ ReturnPair
    \/ SelectController
    \/ BuildEngine
    \/ ChooseInferenceParams
    \/ EngineCall
    \/ WrapperInit
    \/ Tokenize
    \/ Detokenize
    \/ ReadProperties


\* ------------------------------------------------------------ properties
RestoreEntries == {"setup_model_and_tokenizer", "_setup_trainer_and_restore_model"}

Ops(q) == [i \in 1..Len(q) |-> q[i].op]
Positions(op) == { i \in 1..Len(log) : log[i].op = op }
Called(op) == Positions(op) # {}

\* The calls made by _setup_trainer_and_restore_model itself: everything
\* except the calls of the enclosing setup_model_and_tokenizer.
IsOuterEvent(e) ==
    \/ e.op = "load_context" /\ e.sub = "model"
    \/ e.op \in {"get_inference_wrapper", "MCoreTokenizerWrappper"}
IsRestoreEvent(e) == ~IsOuterEvent(e)
RestoreLog == SelectSeq(log, IsRestoreEvent)

FieldsUntouched ==
    /\ restore_config = None
    /\ setup_optimizers = TRUE
    /\ ckpt_path = Some(<<"previous">>)
    /\ state_fn = "None"
    /\ strategy_trainer = "None"

\* _setup_trainer_and_restore_model has returned normally.
RestoreReturned ==
    /\ entry \in RestoreEntries
    /\ \/ pc \in {"L124", "L125", "done"}
       \/ pc = "raised" /\ error \in {"get_inference_wrapper", "MCoreTokenizerWrappper"}

PreconditionViolated == strategy_type # "MegatronStrategy" \/ context_parallel_size > 1

\* C1: with an unsupported strategy or a context_parallel_size above 1 the
\* restore raises an AssertionError at once: it never gets past the two
\* assertions, so it probes and reads no metadata file, builds no
\* RestoreConfig, writes no trainer or strategy field and makes no call.
C1_FailFast ==
    (entry \in RestoreEntries /\ PreconditionViolated) =>
        /\ pc \in {"L121", "L72", "L73", "raised"}
        /\ (pc = "raised" => error \in {"AssertionError", "load_context"})
        /\ RestoreLog = <<>>
        /\ rc = NoConfig
        /\ metadata = NoMeta
        /\ FieldsUntouched

C1_Witness ==
    /\ entry = "_setup_trainer_and_restore_model"
    /\ strategy_type = "MegatronStrategy"
    /\ context_parallel_size = 2
    /\ pc = "raised"
    /\ error = "AssertionError"
    /\ log = <<>>

\* C2: the RestoreConfig installed on the strategy loads the model state and
\* not the optimizer state; its path is the given checkpoint path when
\* <path>/weights/adapter_metadata.json does not exist and the file's
\* model_ckpt_path when it does.
C2_RestoreConfig ==
    (entry \in RestoreEntries /\ restore_config # None) =>
        LET c == restore_config[1]
            f == <<path[1], "weights", "adapter_metadata.json">>
        IN /\ c.load_model_state = TRUE
           /\ c.load_optim_state = FALSE
           /\ IF fs[f] = None
                 THEN c.path = path
                 ELSE /\ fs[f][1].valid
                      /\ "model_ckpt_path" \in DOMAIN fs[f][1].obj
                      /\ c.path = fs[f][1].obj["model_ckpt_path"]

C2_Witness ==
    /\ entry \in RestoreEntries
    /\ restore_config = Some([path |-> <<"base">>, load_model_state |-> TRUE,
                              load_optim_state |-> FALSE])
    /\ path = <<"adapter_ckpt">>
    /\ fs[<<"adapter_ckpt", "weights", "adapter_metadata.json">>] # None
    /\ Called("selective_restore")

HasAdapterMetadata == fs[<<path[1], "weights", "adapter_metadata.json">>] # None

HasMarker(k) == \E i \in 1..Len(k) : i + 8 <= Len(k) /\
                    <<k[i], k[i+1], k[i+2], k[i+3], k[i+4], k[i+5], k[i+6], k[i+7], k[i+8]>>
                      = <<".", "a", "d", "a", "p", "t", "e", "r", ".">>

\* The second, filtered load: exactly one load_checkpoint, after the
\* selective restore, from <path>/weights, asking only for keys that contain
\* ".adapter.", followed by one non-strict load_model_state_dict of what was
\* loaded.
SecondLoadDone ==
    /\ Cardinality(Positions("load_checkpoint")) = 1
    /\ Cardinality(Positions("load_model_state_dict")) = 1
    /\ Cardinality(Positions("selective_restore")) = 1
    /\ LET i == CHOOSE n \in Positions("load_checkpoint") : TRUE
           j == CHOOSE n \in Positions("load_model_state_dict") : TRUE
           r == CHOOSE n \in Positions("selective_restore") : TRUE
       IN /\ r < i
          /\ i < j
          /\ log[i].dir = <<path[1], "weights">>
          /\ \A k \in log[i].keys : HasMarker(k)
          /\ log[j].keys = log[i].keys
          /\ log[j].strict = FALSE

NoSecondLoad == ~Called("load_checkpoint") /\ ~Called("load_model_state_dict")

\* C3 as stated: the second load happens exactly for checkpoints that have
\* adapter metadata.
C3_Original ==
    RestoreReturned => IF HasAdapterMetadata THEN SecondLoadDone ELSE NoSecondLoad

\* C3 (amended): the second, filtered load happens in a successful restore
\* exactly when the model_transform loaded from the checkpoint's context is a
\* low-rank-adapter transform, whether or not adapter metadata exists.
C3_SecondLoadIffLora ==
    RestoreReturned => IF lora = "LoRA" THEN SecondLoadDone ELSE NoSecondLoad

C3_Witness ==
    /\ RestoreReturned
    /\ HasAdapterMetadata
    /\ lora = "LoRA"
    /\ SecondLoadDone
    /\ \E k \in sharded : ~HasMarker(k)
    /\ \E i \in Positions("load_checkpoint") : log[i].keys # {}

\* C4: the controller is the encoder-decoder one exactly when encoder_prompts
\* is not None (an empty list included); the engine always gets the caller's
\* max_batch_size and random_seed, and the one engine.generate call gets
\* prompts, add_BOS, encoder_prompts and the inference parameters.
C4_ControllerDispatch ==
    entry = "generate" =>
        /\ (pc # "L138" /\ error \notin {"SimpleTextGenerationController",
                                        "EncoderDecoderTextGenerationController"}) =>
              /\ text_generation_controller.type =
                    (IF encoder_prompts = None THEN "SimpleTextGenerationController"
                                               ELSE "EncoderDecoderTextGenerationController")
              /\ text_generation_controller.model = "model"
              /\ text_generation_controller.tokenizer = "tokenizer"
        /\ mcore_engine # None =>
              /\ mcore_engine[1].text_generation_controller = text_generation_controller
              /\ mcore_engine[1].max_batch_size = max_batch_size
              /\ mcore_engine[1].random_seed = random_seed
        /\ engine_calls # <<>> =>
              engine_calls = << [prompts |-> prompts, add_BOS |-> add_BOS,
                                 encoder_prompts |-> encoder_prompts,
                                 common_inference_params |-> common_inference_params[1]] >>
        /\ pc = "done" => engine_calls # <<>> /\ mcore_engine # None

C4_Witness ==
    /\ entry = "generate"
    /\ pc = "done"
    /\ encoder_prompts = Some(<<>>)
    /\ text_generation_controller.type = "EncoderDecoderTextGenerationController"
    /\ Len(prompts) = 2

\* C5: without inference parameters the engine is asked for exactly 512
\* tokens; with inference parameters the caller's object reaches the engine.
C5_InferenceParams ==
    (entry = "generate" /\ common_inference_params # None) =>
        /\ inference_params = None =>
              common_inference_params[1].num_tokens_to_generate = 512
        /\ inference_params # None => common_inference_params = inference_params
        /\ \A i \in 1..Len(engine_calls) :
              engine_calls[i].common_inference_params = common_inference_params[1]
        /\ pc = "done" => Len(engine_calls) = 1

C5_Witness ==
    /\ entry = "generate"
    /\ pc = "done"
    /\ inference_params = Some([id |-> "caller", num_tokens_to_generate |-> 64])
    /\ engine_calls[1].common_inference_params.id = "caller"
    /\ results[1][1].num_tokens = 64

\* C6: one engine.generate call per invocation, with the prompts as given,
\* and the engine's result returned as is; with an engine that keeps the
\* order, result i belongs to prompt i.
C6_PromptsPassThrough ==
    entry = "generate" =>
        /\ Len(engine_calls) <= 1
        /\ pc \in {"L138", "L144", "L148", "L150"} => engine_calls = <<>> /\ results = None
        /\ pc = "raised" =>
              /\ results = None
              /\ Len(engine_calls) = (IF error = "engine" THEN 1 ELSE 0)
        /\ pc = "done" =>
              /\ Len(engine_calls) = 1
              /\ engine_calls[1].prompts = prompts
              /\ results # None
              /\ Len(results[1]) = Len(prompts)
              /\ engine_kind = "echo" =>
                    \A i \in 1..Len(prompts) : results[1][i].prompt = prompts[i]
              /\ engine_kind = "reverse" =>
                    \A i \in 1..Len(prompts) : results[1][i].prompt = prompts[Len(prompts) + 1 - i]

C6_Witness ==
    /\ entry = "generate"
    /\ pc = "done"
    /\ engine_kind = "echo"
    /\ prompts = <<"a", "b", "a">>
    /\ max_batch_size = 1
    /\ Len(results[1]) = 3

\* The wrapped tokenizer's ids_to_text inverts its text_to_ids on Texts.
Inverts(tok) == \A x \in Texts : ids_to_text(tok, text_to_ids(tok, x), FALSE) = x

C7_State ==
    entry = "MCoreTokenizerWrappper" =>
        /\ pc \in {"L51", "L57", "done"} => tokens = text_to_ids(tokenizer, text_in)
        /\ pc \in {"L57", "done"} =>
              /\ text_out = ids_to_text(tokenizer, tokens,
                                        IF remove_arg = None THEN FALSE ELSE remove_arg[1])
              /\ (Inverts(tokenizer) /\ remove_arg \in {None, Some(FALSE)}) => text_out = text_in

C7_Frame == (pc \in {"L54", "L51"}) => (wrapper' = wrapper /\ tokenizer' = tokenizer)

\* C7: tokenize returns text_to_ids(x), detokenize returns
\* ids_to_text(tokens, remove_special_tokens) with the flag false unless
\* given, so detokenize(tokenize(x)) = x whenever the tokenizer's ids_to_text
\* inverts its text_to_ids; neither call changes the wrapper or the tokenizer.
C7_RoundTrip == []C7_State /\ [][C7_Frame]_vars

C7_Witness ==
    /\ entry = "MCoreTokenizerWrappper"
    /\ pc = "done"
    /\ tokenizer.kind = "plain"
    /\ remove_arg = None
    /\ text_in = <<"<s>", "b">>
    /\ tokens = <<1, 4>>
    /\ text_out = text_in


IsLifecycleEvent(e) ==
    /\ e.op \in {"set_restore_config", "set_setup_optimizers", "set_ckpt_path", "connect",
                 "launch", "setup_environment", "configure_model", "set_state_fn",
                 "setup_megatron_parallel", "set_strategy_trainer", "selective_restore",
                 "load_context"}
    /\ ~(e.op = "load_context" /\ e.sub = "model")
Lifecycle == Ops(SelectSeq(log, IsLifecycleEvent))

IsPrefix(a, b) == Len(a) <= Len(b) /\ SubSeq(b, 1, Len(a)) = a

StateDictWasEmpty == \E i \in Positions("state_dict") : log[i].obj = "empty"

ExpectedLifecycle ==
    <<"set_restore_config", "set_setup_optimizers", "set_ckpt_path", "connect">>
    \o (IF launcher # None THEN <<"launch">> ELSE <<>>)
    \o <<"setup_environment">>
    \o (IF StateDictWasEmpty THEN <<"configure_model">> ELSE <<>>)
    \o <<"set_state_fn", "setup_megatron_parallel", "set_strategy_trainer",
         "selective_restore", "load_context">>

\* C8: the lifecycle events of a restore happen at most once each and in the
\* order install RestoreConfig, disable optimizer setup, clear ckpt_path,
\* connect, launch (only with a launcher, with a no-op), setup_environment,
\* configure_model (only when state_dict() was empty), TESTING,
\* setup_megatron_parallel, bind trainer, selective_restore, load the
\* model_transform context; a successful restore has made all of them, and
\* selective_restore runs only with the RestoreConfig installed, the run mode
\* TESTING and setup_megatron_parallel done.
C8_LifecycleOrder ==
    entry \in RestoreEntries =>
        /\ IsPrefix(Lifecycle, ExpectedLifecycle)
        /\ RestoreReturned => Lifecycle = ExpectedLifecycle
        /\ \A i \in Positions("launch") : log[i].obj = "noop"
        /\ Cardinality(Positions("state_dict")) <= 1
        /\ \A i \in Positions("configure_model") :
              i > 1 /\ log[i - 1].op = "state_dict" /\ log[i - 1].obj = "empty"
        /\ \A i \in Positions("connect") : log[i].obj = "model"
        /\ \A r \in Positions("selective_restore") :
              /\ restore_config # None
              /\ log[r].dir = restore_config[1].path
              /\ state_fn = "TESTING"
              /\ strategy_trainer = "trainer"
              /\ \E i \in Positions("set_restore_config") : i < r
              /\ \E i \in Positions("set_state_fn") : i < r
              /\ \E i \in Positions("setup_megatron_parallel") : i < r

C8_Witness ==
    /\ RestoreReturned
    /\ launcher # None
    /\ Called("launch")
    /\ Called("configure_model")
    /\ lora = "TrainerContext"
    /\ Len(Lifecycle) = 12

MetaUnreadable ==
    /\ HasAdapterMetadata
    /\ LET c == fs[<<path[1], "weights", "adapter_metadata.json">>][1]
       IN ~c.valid \/ "model_ckpt_path" \notin DOMAIN c.obj

OwnErrors == {"AssertionError", "JSONDecodeError", "KeyError"}

C9_State ==
    entry \in RestoreEntries =>
        /\ MetaUnreadable =>
              /\ FieldsUntouched
              /\ rc = NoConfig
              /\ pc \in {"L121", "L72", "L73", "L74", "L75", "L77", "raised"}
              /\ IsPrefix(Ops(RestoreLog), <<"exists", "open">>)
              /\ pc = "raised" => error \in OwnErrors \cup {"load_context"}
        /\ (pc = "raised" /\ error \in {"JSONDecodeError", "KeyError"}) =>
              /\ MetaUnreadable
              /\ Ops(RestoreLog) = <<"exists", "open">>
        /\ (pc = "raised" /\ error \notin OwnErrors) =>
              log # <<>> /\ log[Len(log)].op = error
        /\ pc # "raised" => error = "None"
        /\ \A i, j \in 1..Len(log) :
              i < j => <<log[i].op, log[i].sub>> # <<log[j].op, log[j].sub>>

C9_Terminal == pc # "raised"

\* C9: an adapter-metadata file that exists but cannot be parsed, or lacks
\* model_ckpt_path, makes the restore raise that error with no field written
\* and no lifecycle call made, and never falls back to the given path; a
\* failing step is the last step executed and no step is executed twice.
C9_ErrorsPropagate == []C9_State /\ [][C9_Terminal]_vars

C9_Witness ==
    /\ entry = "setup_model_and_tokenizer"
    /\ pc = "raised"
    /\ error = "KeyError"
    /\ Ops(log) = <<"load_context", "exists", "open">>
    /\ FieldsUntouched

OuterOps == Ops(SelectSeq(log, IsOuterEvent))

\* C10: setup_model_and_tokenizer loads the "model" context, runs the
\* restore on it, asks that model for its inference wrapper with the given
\* dtype and threshold, and wraps that model's tokenizer; the wrapper is
\* requested and the pair returned only after the restore has completed
\* (selective restore done, adapter weights merged for a low-rank-adapter
\* transform), and a failure ends the call with nothing returned.
C10_SetupOrder ==
    entry = "setup_model_and_tokenizer" =>
        /\ IsPrefix(OuterOps, <<"load_context", "get_inference_wrapper", "MCoreTokenizerWrappper">>)
        /\ log # <<>> =>
              log[1] = [Ev("load_context") EXCEPT !.dir = <<path[1], "context">>, !.sub = "model"]
        /\ \A w \in Positions("get_inference_wrapper") :
              /\ log[w].obj = "model"
              /\ log[w].sub = params_dtype
              /\ \E r \in Positions("selective_restore") : r < w
              /\ \E t \in Positions("load_context") : log[t].sub = "model.model_transform" /\ t < w
              /\ lora \in {"LoRA", "TrainerContext"}
              /\ lora = "LoRA" => SecondLoadDone
              /\ \A i \in 1..Len(log) : IsRestoreEvent(log[i]) => i < w
        /\ ret # None =>
              /\ pc = "done"
              /\ error = "None"
              /\ OuterOps = <<"load_context", "get_inference_wrapper", "MCoreTokenizerWrappper">>
              /\ ret[1].wrapped = [model |-> "model", dtype |-> params_dtype,
                                   threshold |-> threshold]
              /\ ret[1].tokenizer = [tokenizer |-> "model"]
        /\ pc = "done" => ret # None
        /\ pc = "raised" => ret = None

C10_Witness ==
    /\ entry = "setup_model_and_tokenizer"
    /\ ret # None
    /\ lora = "LoRA"
    /\ model_ref = "lora_model"
    /\ params_dtype = "float32"
    /\ threshold = 1
    /\ HasAdapterMetadata

Spec == Init /\ [][Next]_vars
====
